---- MODULE Spec2Model ----
(***************************************************************************)
(* Model of kasa_mqtt_bridge.py: the topic naming function, the device     *)
(* registry filled by discovery_task, the poll cycle of poll_kasa_devices, *)
(* the command router handle_mqtt_messages, heartbeat_task, the session    *)
(* supervisor run_once and the reconnect supervisor main.                  *)
(*                                                                         *)
(* Strings that the program inspects character by character (aliases,      *)
(* device ids, topic names) are sequences of one-character strings.        *)
(* Every await of the program is a boundary between two actions; the code  *)
(* between two awaits is one atomic action (single-threaded event loop).   *)
(***************************************************************************)
EXTENDS Integers, Sequences, FiniteSets, TLC

(* ------------------------------ bounds --------------------------------- *)
\* sessions (calls of run_once) the reconnect supervisor may start
MaxSessions == 7
\* passes of the discovery loop (sleeps of 15 s) per session
MaxTicks == 2
\* sessions started when supervision and discovery run together
LifeSessions == 2
\* command messages received in a session
MaxMsgs == 2

(* -------------------------- program constants -------------------------- *)
BackoffInit == 3
BackoffCeil == 60
SuffixLen == 8
DiscoverySleep == 15

Min(a, b) == IF a < b THEN a ELSE b

(* ------------------------- sanitize_alias ------------------------------ *)
UpperChars == <<"A","B","C","D","E","F","G","H","I","J","K","L","M",
                "N","O","P","Q","R","S","T","U","V","W","X","Y","Z">>
LowerChars == <<"a","b","c","d","e","f","g","h","i","j","k","l","m",
                "n","o","p","q","r","s","t","u","v","w","x","y","z">>
DigitChars == {"0","1","2","3","4","5","6","7","8","9"}
SpaceChars == {" ", "\t", "\n", "\r"}

Range(s) == {s[i] : i \in 1..Len(s)}

\* str.lower() on one character
Lower(c) ==
    IF c \in Range(UpperChars)
    THEN LowerChars[CHOOSE i \in 1..Len(UpperChars) : UpperChars[i] = c]
    ELSE c

ToLower(s) == [i \in 1..Len(s) |-> Lower(s[i])]

RECURSIVE DropSpaces(_)
DropSpaces(s) ==
    IF s # <<>> /\ Head(s) \in SpaceChars THEN DropSpaces(Tail(s)) ELSE s

\* re.sub(r'\s+', '_', s): every maximal run of whitespace becomes one "_"
RECURSIVE CollapseSpaces(_)
CollapseSpaces(s) ==
    IF s = <<>> THEN <<>>
    ELSE IF Head(s) \in SpaceChars
         THEN <<"_">> \o CollapseSpaces(DropSpaces(Tail(s)))
         ELSE <<Head(s)>> \o CollapseSpaces(Tail(s))

AllowedChar(c) == c \in Range(LowerChars) \cup DigitChars \cup {"_", "-"}

\* re.sub(r'[^a-z0-9_-]', '', s)
StripDisallowed(s) == SelectSeq(s, AllowedChar)

\* alias None and alias "" are both the empty sequence (alias or "")
sanitize_alias(alias) == StripDisallowed(CollapseSpaces(ToLower(alias)))

\* s[-n:]
LastChars(s, n) == SubSeq(s, IF Len(s) > n THEN Len(s) - n + 1 ELSE 1, Len(s))

IdSuffix(device_id) == LastChars(device_id, SuffixLen)

\* f"{alias}_{device_id[-8:]}" with alias already sanitized
unique_name(alias, device_id) ==
    sanitize_alias(alias) \o <<"_">> \o IdSuffix(device_id)

(* --------------------------- the environment --------------------------- *)
\* device identities the network can report
IdA  == <<"a","1","2","3","4","5","6","7","8">>
IdB  == <<"b","1","2","3","4","5","6","7","8">>
IdK1 == <<"k","1">>
IdK2 == <<"k","2">>

\* aliases the devices can report; the first two sanitize to "lamp_1"
AliasPool == { <<"L","a","m","p"," ","1">>,
               <<"l","a","m","p","_","1","!">>,
               <<>> }

IPs == {"10.0.0.1", "10.0.0.2"}

Tasks == {"discovery", "mqtt_messages", "polling", "heartbeat"}
\* activities whose code can let an exception escape (heartbeat_task catches
\* every Exception around each of its publishes)
CanRaise == {"discovery", "mqtt_messages", "polling"}

\* no device report
NoReport == [is_hub |-> FALSE, device_id |-> <<>>, alias |-> <<>>,
             children |-> <<>>]

\* datetime.max
Never == 1000000000

\* config['discovery_jobs']; rescan_interval 0 stands for a job without one
Jobs == << [type |-> "broadcast", target |-> "none", rescan_interval |-> 30],
           [type |-> "host", target |-> "10.0.0.1", rescan_interval |-> 0] >>

\* no message, no handle
NoMsg == [topic |-> <<>>, payload |-> [kind |-> "none", items |-> <<>>]]
NoHandle == [device_id |-> <<>>, host |-> "none", parent |-> "none"]

EmptyMap == [x \in {} |-> x]
Put(m, k, v) == [x \in DOMAIN m \cup {k} |-> IF x = k THEN v ELSE m[x]]

(* ------------------------------- state --------------------------------- *)
VARIABLES
    \* main
    stop_event,          \* asyncio.Event set by the signal handler
    backoff,             \* main: backoff
    mainPc,              \* position of main
    sessions,            \* number of run_once calls so far
    sleepLog,            \* durations of the sleeps main has started, in order
    cancelReq,           \* cancellation of the main task: none / pending / delivered
    \* run_once
    supPc,               \* position of run_once
    outcome,             \* how the current/last run_once ends: ok / error / cancelled
    task,                \* state of each of the four asyncio tasks
    \* heartbeat_task
    hbPc,                \* position of heartbeat_task
    status,              \* retained payload of {base}/_bridge/status on the broker
    hbLast,              \* last message this session's heartbeat called publish for
    \* registry (locals of run_once shared with the tasks)
    kasa_devices,        \* device_id -> handle
    key_order,           \* insertion order of kasa_devices
    device_map,          \* device_id -> unique_name
    reverse_device_map,  \* unique_name -> device_id
    \* discovery_task
    now,                 \* wall clock, seconds
    ticks,               \* passes of the discovery loop in this session
    next_scan_times,     \* per job
    discPc,              \* position of discovery_task
    discJob,             \* index of the job being executed
    temp_found_devices,  \* addresses found by the job, not yet processed
    curIp,               \* address being (last) authenticated
    curDev,              \* what the device at curIp reports
    discLog,             \* failures and registrations of the current pass
    \* poll_kasa_devices
    pollPc,              \* position of poll_kasa_devices
    pollSnap,            \* list(devices.keys()) still to visit in this cycle
    pollDev,             \* device_id being polled
    hubs_aggiornati,     \* parents refreshed in this cycle
    hubCalls,            \* per parent: hub.update() calls started in this cycle
    hubFails,            \* per parent: hub.update() calls failed in this cycle
    hubOk,               \* parents whose hub.update() succeeded in this cycle
    devCalls,            \* devices whose dev.update() was started in this cycle
    published,           \* devices whose state was published in this cycle
    cycleSnap,           \* list(devices.keys()) as taken when this cycle started
    visited,             \* identities whose turn has come in this cycle
    \* handle_mqtt_messages
    msgPc,               \* position of handle_mqtt_messages
    inbox,               \* client.messages: messages received, not yet consumed
    arrived,             \* every message received in this session, in order
    taken,               \* the messages consumed so far, in order
    curMsg,              \* message being (last) handled
    cmdDev,              \* dev: handle the message resolved to
    pairs,               \* commands.items() from the pair being set onwards
    cmdLog,              \* device and broker calls completed for curMsg
    \* observations over the life of the process
    stopSeen,            \* the stop signal was set while this session's tasks ran
    runLog,              \* per job: the times at which its scans were started
    \* inputs and results of the topic naming function
    in1, in2, out1, out2,
    \* fixed during a run
    sessionCap,          \* sessions main may start in this run
    network              \* what authenticated devices can report in this run

mainVars == <<stop_event, backoff, mainPc, sessions, sleepLog, cancelReq>>
supVars  == <<supPc, outcome, task>>
hbVars   == <<hbPc, status, hbLast>>
regVars  == <<kasa_devices, key_order, device_map, reverse_device_map>>
discVars == <<ticks, next_scan_times, discPc, discJob, temp_found_devices, curIp,
              curDev, discLog>>
pollVars == <<pollPc, pollSnap, pollDev, hubs_aggiornati, hubCalls, hubFails,
              hubOk, devCalls, published, cycleSnap, visited>>
cmdVars  == <<msgPc, inbox, arrived, taken, curMsg, cmdDev, pairs, cmdLog>>
obsVars  == <<stopSeen, runLog>>
nameVars == <<in1, in2, out1, out2>>
fixedVars == <<sessionCap, network>>
vars == <<mainVars, supVars, hbVars, regVars, now, discVars, pollVars, cmdVars, obsVars, nameVars,
          fixedVars>>

Finished == {"returned", "raised", "cancelled"}

(* locals of a task that is not running *)
DiscIdle ==
    /\ ticks = 0 /\ next_scan_times = <<>> /\ discPc = "dead" /\ discJob = 0
    /\ temp_found_devices = {} /\ curIp = "none" /\ curDev = NoReport
    /\ discLog = <<>>
PollIdle ==
    /\ pollPc = "dead" /\ pollSnap = <<>> /\ pollDev = <<>>
    /\ hubs_aggiornati = {} /\ hubCalls = EmptyMap /\ hubFails = EmptyMap
    /\ hubOk = {} /\ devCalls = {} /\ published = {}
    /\ cycleSnap = <<>> /\ visited = {}
CmdIdle ==
    /\ msgPc = "dead" /\ inbox = <<>> /\ arrived = <<>> /\ taken = <<>>
    /\ curMsg = NoMsg /\ cmdDev = NoHandle /\ pairs = <<>> /\ cmdLog = <<>>
ObsIdle == stopSeen = FALSE /\ runLog = [i \in 1..Len(Jobs) |-> <<>>]
NameIdle == in1 = <<>> /\ in2 = <<>> /\ out1 = <<>> /\ out2 = <<>>
RegEmpty ==
    /\ kasa_devices = EmptyMap /\ key_order = <<>>
    /\ device_map = EmptyMap /\ reverse_device_map = EmptyMap

\* state when main() reaches its while loop for the first time
InitMain ==
    /\ stop_event = FALSE /\ backoff = BackoffInit /\ mainPc = "loop"
    /\ sessions = 0 /\ sleepLog = <<>> /\ cancelReq = "none"
    /\ supPc = "idle" /\ outcome = "none" /\ task = [t \in Tasks |-> "idle"]
    /\ hbPc = "dead" /\ status = "none" /\ hbLast = "none"
    /\ RegEmpty /\ now = 0 /\ DiscIdle /\ PollIdle /\ NameIdle
    /\ CmdIdle /\ ObsIdle

(* primed versions of the idle predicates *)
DiscReset ==
    /\ ticks' = 0 /\ next_scan_times' = <<>> /\ discPc' = "dead" /\ discJob' = 0
    /\ temp_found_devices' = {} /\ curIp' = "none" /\ curDev' = NoReport
    /\ discLog' = <<>>
DiscCreate ==
    /\ ticks' = 0 /\ next_scan_times' = <<>> /\ discPc' = "start" /\ discJob' = 0
    /\ temp_found_devices' = {} /\ curIp' = "none" /\ curDev' = NoReport
    /\ discLog' = <<>>
PollReset ==
    /\ pollPc' = "dead" /\ pollSnap' = <<>> /\ pollDev' = <<>>
    /\ hubs_aggiornati' = {} /\ hubCalls' = EmptyMap /\ hubFails' = EmptyMap
    /\ hubOk' = {} /\ devCalls' = {} /\ published' = {}
    /\ cycleSnap' = <<>> /\ visited' = {}
PollCreate ==
    /\ pollPc' = "start" /\ pollSnap' = <<>> /\ pollDev' = <<>>
    /\ hubs_aggiornati' = {} /\ hubCalls' = EmptyMap /\ hubFails' = EmptyMap
    /\ hubOk' = {} /\ devCalls' = {} /\ published' = {}
    /\ cycleSnap' = <<>> /\ visited' = {}
CmdReset ==
    /\ msgPc' = "dead" /\ inbox' = <<>> /\ arrived' = <<>> /\ taken' = <<>>
    /\ curMsg' = NoMsg /\ cmdDev' = NoHandle /\ pairs' = <<>> /\ cmdLog' = <<>>
CmdCreate ==
    /\ msgPc' = "subscribe" /\ inbox' = <<>> /\ arrived' = <<>> /\ taken' = <<>>
    /\ curMsg' = NoMsg /\ cmdDev' = NoHandle /\ pairs' = <<>> /\ cmdLog' = <<>>

\* the coroutine of task t is gone (it raised, returned or was cancelled)
DropLocals(ts) ==
    /\ IF "discovery" \in ts THEN DiscReset ELSE UNCHANGED discVars
    /\ IF "polling" \in ts THEN PollReset ELSE UNCHANGED pollVars
    /\ IF "heartbeat" \in ts THEN hbPc' = "dead" ELSE UNCHANGED hbPc
    /\ IF "mqtt_messages" \in ts THEN CmdReset ELSE UNCHANGED cmdVars

(* ---------------------------- signal handler --------------------------- *)
\* _handle_stop: SIGINT / SIGTERM
SetStop ==
    /\ ~stop_event /\ mainPc # "done"
    /\ stop_event' = TRUE
    /\ stopSeen' = (supPc = "wait" /\ task["heartbeat"] = "running")
    /\ UNCHANGED <<backoff, mainPc, sessions, sleepLog, cancelReq, supVars,
                   hbVars, regVars, now, discVars, pollVars, cmdVars, runLog,
                   nameVars, fixedVars>>

\* the main task is cancelled from outside (asyncio.run on an interrupt when
\* add_signal_handler is not implemented)
CancelMain ==
    /\ cancelReq = "none" /\ mainPc # "done"
    /\ cancelReq' = "pending"
    /\ UNCHANGED <<stop_event, backoff, mainPc, sessions, sleepLog, supVars,
                   hbVars, regVars, now, discVars, pollVars, cmdVars, obsVars, nameVars, fixedVars>>

(* ------------------------------- main ---------------------------------- *)
NextBackoffUncapped(b) == b * 2
NextBackoff(b) == Min(b * 2, BackoffCeil)

\* while not stop_event.is_set(): ... await run_once(stop_event), up to the
\* first await of run_once (the connection); run_once starts with empty maps
MainLoop ==
    /\ mainPc = "loop"
    /\ IF stop_event
       THEN /\ mainPc' = "done"
            /\ UNCHANGED <<sessions, supVars, regVars>>
       ELSE /\ sessions < sessionCap
            /\ mainPc' = "run_once"
            /\ sessions' = sessions + 1
            /\ supPc' = "connect" /\ outcome' = "none"
            /\ UNCHANGED task
            /\ kasa_devices' = EmptyMap /\ key_order' = <<>>
            /\ device_map' = EmptyMap /\ reverse_device_map' = EmptyMap
    /\ UNCHANGED <<stop_event, backoff, sleepLog, cancelReq, hbVars, now,
                   discVars, pollVars, cmdVars, obsVars, nameVars, fixedVars>>

AfterRunOnceGiveUp(o) == mainPc' = "done" /\ UNCHANGED <<sleepLog, cancelReq>>
\* what main does when run_once has returned or raised with outcome o
\* (lines 346-355), up to its next await
AfterRunOnce(o) ==
    CASE o = "ok" ->
            IF ~stop_event
            THEN /\ mainPc' = "sleep" /\ sleepLog' = Append(sleepLog, backoff)
                 /\ UNCHANGED cancelReq
            ELSE /\ mainPc' = "loop" /\ UNCHANGED <<sleepLog, cancelReq>>
      [] o = "error" ->
            /\ mainPc' = "sleep_err" /\ sleepLog' = Append(sleepLog, backoff)
            /\ UNCHANGED cancelReq
      [] o = "cancelled" ->
            /\ mainPc' = "done" /\ cancelReq' = "delivered"
            /\ UNCHANGED sleepLog

\* await asyncio.sleep(backoff) is over; backoff = min(backoff * 2, 60)
MainSleepDone ==
    /\ mainPc \in {"sleep", "sleep_err"} /\ cancelReq # "pending"
    /\ backoff' = NextBackoff(backoff)
    /\ now' = now + backoff
    /\ mainPc' = "loop"
    /\ UNCHANGED <<stop_event, sessions, sleepLog, cancelReq, supVars, hbVars,
                   regVars, discVars, pollVars, cmdVars, obsVars, nameVars, fixedVars>>

\* CancelledError raised by asyncio.sleep: caught (break) on line 350 when
\* sleeping on line 348, escaping main when sleeping on line 354
MainSleepCancelled ==
    /\ mainPc \in {"sleep", "sleep_err"} /\ cancelReq = "pending"
    /\ mainPc' = "done" /\ cancelReq' = "delivered"
    /\ UNCHANGED <<stop_event, backoff, sessions, sleepLog, supVars, hbVars,
                   regVars, now, discVars, pollVars, cmdVars, obsVars, nameVars, fixedVars>>

(* ------------------------------ run_once ------------------------------- *)
\* async with aiomqtt.Client(...) connected; the four tasks are created and
\* run_once suspends in asyncio.wait
ConnectOk ==
    /\ supPc = "connect" /\ cancelReq # "pending"
    /\ supPc' = "wait"
    /\ task' = [t \in Tasks |-> "running"]
    /\ hbPc' = "start" /\ hbLast' = "none" /\ UNCHANGED status
    /\ DiscCreate /\ PollCreate /\ CmdCreate
    /\ stopSeen' = FALSE
    /\ UNCHANGED <<mainVars, outcome, regVars, now, runLog, nameVars, fixedVars>>

\* the connection fails (or the connect is cancelled): run_once raises
\* before any task exists
ConnectFail ==
    /\ supPc = "connect"
    /\ supPc' = "closed"
    /\ outcome' = IF cancelReq = "pending" THEN "cancelled" ELSE "error"
    /\ AfterRunOnce(outcome')
    /\ UNCHANGED <<stop_event, backoff, sessions, task, hbVars, regVars, now,
                   discVars, pollVars, cmdVars, obsVars, nameVars, fixedVars>>

AllDoneNoWait(ts) == TRUE
\* asyncio.gather(*ts, return_exceptions=True) has a result
AllDone(ts) == \A t \in ts : task[t] \in Finished

\* asyncio.wait(tasks, return_when=FIRST_EXCEPTION) has a result: some task
\* finished by raising, or every task is finished
FirstException == \E t \in Tasks : task[t] = "raised"
WaitOver == FirstException \/ \A t \in Tasks : task[t] \in Finished

\* t.cancel() for every t of ts (no effect on a finished task)
CancelAll(ts) ==
    [t \in Tasks |-> IF t \in ts /\ task[t] = "running" THEN "cancel_req"
                     ELSE task[t]]

\* lines 313-317: wait returns; the pending tasks are cancelled and gathered
WaitReturn ==
    /\ supPc = "wait" /\ cancelReq # "pending" /\ WaitOver
    /\ task' = CancelAll({t \in Tasks : task[t] \notin Finished})
    /\ supPc' = "gather_pending"
    /\ UNCHANGED <<mainVars, outcome, hbVars, regVars, now, discVars,
                   pollVars, cmdVars, obsVars, nameVars, fixedVars>>

\* asyncio.wait is cancelled: CancelledError goes to the finally block, which
\* cancels every task and gathers them
WaitCancelled ==
    /\ supPc = "wait" /\ cancelReq = "pending"
    /\ task' = CancelAll(Tasks)
    /\ outcome' = "cancelled"
    /\ supPc' = "finally_gather"
    /\ UNCHANGED <<mainVars, hbVars, regVars, now, discVars, pollVars,
                   cmdVars, obsVars, nameVars, fixedVars>>

\* lines 317-326: gather(*pending) is over; the first exception of a done
\* task is raised; the finally block cancels (no task is left to cancel) and
\* gathers all tasks
GatherPendingDone ==
    /\ supPc = "gather_pending"
    /\ AllDone(Tasks)
    /\ outcome' = IF cancelReq = "pending" THEN "cancelled"
                  ELSE IF FirstException THEN "error" ELSE "ok"
    /\ task' = CancelAll(Tasks)
    /\ supPc' = "finally_gather"
    /\ UNCHANGED <<mainVars, hbVars, regVars, now, discVars, pollVars,
                   cmdVars, obsVars, nameVars, fixedVars>>

\* line 326 is over; the client context is left (disconnect)
FinallyDone ==
    /\ supPc = "finally_gather"
    /\ AllDone(Tasks)
    /\ outcome' = IF cancelReq = "pending" THEN "cancelled" ELSE outcome
    /\ supPc' = "disconnect"
    /\ UNCHANGED <<mainVars, task, hbVars, regVars, now, discVars, pollVars,
                   cmdVars, obsVars, nameVars, fixedVars>>

\* run_once returns or raises to main
RunOnceExit ==
    /\ supPc = "disconnect"
    /\ supPc' = "closed"
    /\ outcome' = IF cancelReq = "pending" THEN "cancelled" ELSE outcome
    /\ AfterRunOnce(outcome')
    /\ UNCHANGED <<stop_event, backoff, sessions, task, hbVars, regVars, now,
                   discVars, pollVars, cmdVars, obsVars, nameVars, fixedVars>>

(* ------------------------------ the tasks ------------------------------ *)
\* an exception escapes the coroutine of task t; in handle_mqtt_messages the
\* awaits outside its try block are the subscription (line 208) and the wait
\* for the next message (line 211)
TaskRaise(t) ==
    /\ t \in CanRaise /\ task[t] = "running"
    /\ t = "mqtt_messages" => msgPc \in {"subscribe", "wait"}
    /\ task' = [task EXCEPT ![t] = "raised"]
    /\ DropLocals({t})
    /\ UNCHANGED <<mainVars, supPc, outcome, status, hbLast, regVars, now,
                   obsVars, nameVars, fixedVars>>

\* CancelledError is thrown into the coroutine of task t at its await; no
\* handler of the four coroutines catches it
TaskCancelled(t) ==
    /\ task[t] = "cancel_req"
    /\ task' = [task EXCEPT ![t] = "cancelled"]
    /\ DropLocals({t})
    /\ UNCHANGED <<mainVars, supPc, outcome, status, hbLast, regVars, now,
                   obsVars, nameVars, fixedVars>>

(* ---------------------------- heartbeat_task --------------------------- *)
HbRunning == task["heartbeat"] = "running"

\* while not stop_event.is_set(): publish heartbeat; after the loop publish
\* "offline"
HbLoopHead == IF stop_event THEN "pub_offline" ELSE "pub_beat"
\* the message of the publish that starts at the loop head
HbNextMessage == IF stop_event THEN "offline" ELSE "beat"

\* first step of the task: up to await client.publish(status "online")
HbStart ==
    /\ HbRunning /\ hbPc = "start"
    /\ hbPc' = "pub_online" /\ hbLast' = "online"
    /\ UNCHANGED <<mainVars, supVars, status, regVars, now, discVars,
                   pollVars, cmdVars, obsVars, nameVars, fixedVars>>

\* the "online" publish is over (ok: it reached the broker)
HbOnlineDone(ok) ==
    /\ HbRunning /\ hbPc = "pub_online"
    /\ status' = IF ok THEN "online" ELSE status
    /\ hbPc' = HbLoopHead /\ hbLast' = HbNextMessage
    /\ UNCHANGED <<mainVars, supVars, regVars, now, discVars, pollVars,
                   cmdVars, obsVars, nameVars, fixedVars>>

\* the heartbeat publish is over; await asyncio.sleep(15) starts
HbBeatDone(ok) ==
    /\ HbRunning /\ hbPc = "pub_beat"
    /\ hbPc' = "sleep"
    /\ UNCHANGED <<mainVars, supVars, status, hbLast, regVars, now, discVars,
                   pollVars, cmdVars, obsVars, nameVars, fixedVars>>

\* the sleep is over; the loop condition is evaluated
HbSleepDone ==
    /\ HbRunning /\ hbPc = "sleep"
    /\ hbPc' = HbLoopHead /\ hbLast' = HbNextMessage
    /\ UNCHANGED <<mainVars, supVars, status, regVars, now, discVars,
                   pollVars, cmdVars, obsVars, nameVars, fixedVars>>

\* the "offline" publish is over; the coroutine returns
HbOfflineDone(ok) ==
    /\ HbRunning /\ hbPc = "pub_offline"
    /\ status' = IF ok THEN "offline" ELSE status
    /\ UNCHANGED hbLast
    /\ hbPc' = "dead"
    /\ task' = [task EXCEPT !["heartbeat"] = "returned"]
    /\ UNCHANGED <<mainVars, supPc, outcome, regVars, now, discVars,
                   pollVars, cmdVars, obsVars, nameVars, fixedVars>>

Heartbeat ==
    \/ HbStart
    \/ \E ok \in BOOLEAN : HbOnlineDone(ok)
    \/ \E ok \in BOOLEAN : HbBeatDone(ok)
    \/ HbSleepDone
    \/ \E ok \in BOOLEAN : HbOfflineDone(ok)

(* ------------------ specification of the supervision ------------------- *)
Connect == ConnectOk \/ ConnectFail
Supervisor ==
    \/ WaitReturn \/ WaitCancelled \/ GatherPendingDone \/ FinallyDone
    \/ RunOnceExit
Main == MainLoop \/ MainSleepDone \/ MainSleepCancelled

Next ==
    \/ SetStop \/ CancelMain
    \/ Main \/ Connect \/ Supervisor
    \/ \E t \in Tasks : TaskRaise(t)
    \/ \E t \in Tasks : TaskCancelled(t)
    \/ Heartbeat

Init == InitMain /\ sessionCap = MaxSessions /\ network = {}

Spec == Init /\ [][Next]_vars

\* the event loop runs every ready coroutine and every timer fires; failures,
\* signals and cancellation of main are not forced to happen
FairSpec ==
    /\ Spec
    /\ WF_vars(Main) /\ WF_vars(Connect) /\ WF_vars(Supervisor)
    /\ WF_vars(Heartbeat)
    /\ \A t \in Tasks : WF_vars(TaskCancelled(t))

(* ---------------------------- discovery_task --------------------------- *)
\* what an authenticated device can report: a standalone device with its
\* device_id and alias, or a hub (model KH100) with its list of children
StandaloneIds == {IdA, IdB}
ChildLists ==
    {<<>>}
    \cup {<<[device_id |-> IdK1, alias |-> a]>> : a \in AliasPool}
    \cup {<<[device_id |-> IdK2, alias |-> a]>> : a \in AliasPool}
    \cup {<<[device_id |-> IdK1, alias |-> a], [device_id |-> IdK2, alias |-> b]>> :
            a \in AliasPool, b \in AliasPool}
Reports ==
    [is_hub : {FALSE}, device_id : StandaloneIds, alias : AliasPool,
     children : {<<>>}]
    \cup [is_hub : {TRUE}, device_id : {<<"h">>}, alias : {<<>>},
          children : ChildLists]

\* the handle of a standalone device found at address ip, and of a child of
\* the hub object created for address ip (child.host is the hub's address;
\* child.parent is that hub object, named by the address it was created for)
StandaloneHandle(id, ip) == [device_id |-> id, host |-> ip, parent |-> "none"]
ChildHandle(id, ip) == [device_id |-> id, host |-> ip, parent |-> ip]

\* ip in [d.host for d in kasa_devices.values()]
AddressKnown(ip, devs) == \E d \in DOMAIN devs : devs[d].host = ip

IsNewAlways(device_id, devs) == TRUE
\* device_id not in kasa_devices
IsNew(device_id, devs) == device_id \notin DOMAIN devs

RegisterHandleOnly(r, device_id, alias, handle) ==
    [r EXCEPT !.kd = Put(r.kd, device_id, handle),
              !.ko = IF device_id \in DOMAIN r.kd THEN r.ko
                     ELSE Append(r.ko, device_id)]
\* lines 140-146 and 149-155 on the registry r = [kd, ko, dm, rdm]; no await
\* lies between the check and the three insertions
RegisterDevice(r, device_id, alias, handle) ==
    IF IsNew(device_id, r.kd)
    THEN LET name == unique_name(alias, device_id)
         IN  [kd  |-> Put(r.kd, device_id, handle),
              ko  |-> IF device_id \in DOMAIN r.kd THEN r.ko
                      ELSE Append(r.ko, device_id),
              dm  |-> Put(r.dm, device_id, name),
              rdm |-> Put(r.rdm, name, device_id)]
    ELSE r

\* for child in dev.children: ...
RECURSIVE RegisterChildren(_, _, _)
RegisterChildren(r, children, ip) ==
    IF children = <<>> THEN r
    ELSE LET c == Head(children)
         IN  RegisterChildren(
                 RegisterDevice(r, c.device_id, c.alias,
                                ChildHandle(c.device_id, ip)),
                 Tail(children), ip)

\* lines 136-155 for the authenticated device dev found at ip
RegisterReport(r, dev, ip) ==
    IF dev.is_hub
    THEN RegisterChildren(r, dev.children, ip)
    ELSE RegisterDevice(r, dev.device_id, dev.alias,
                        StandaloneHandle(dev.device_id, ip))

Registry ==
    [kd |-> kasa_devices, ko |-> key_order, dm |-> device_map,
     rdm |-> reverse_device_map]

DiscRunning == task["discovery"] = "running"

Due(i) == ~(now < next_scan_times[i])
DueFrom(i) == {j \in i..Len(Jobs) : Due(j)}
SetMin(S) == CHOOSE x \in S : \A y \in S : x <= y

\* what a scan of job j that does not fail can put into
\* temp_found_devices: any set of addresses for a broadcast, the target or
\* nothing for a host job
ScanResults(j) ==
    IF Jobs[j].type = "broadcast" THEN SUBSET IPs
    ELSE {{}, {Jobs[j].target}}

\* lines 92-97: first step of the task, up to the first pass of the loop
DiscStart ==
    /\ DiscRunning /\ discPc = "start"
    /\ next_scan_times' = [i \in 1..Len(Jobs) |-> now]
    /\ discPc' = "jobs" /\ discJob' = 1
    /\ UNCHANGED <<mainVars, supVars, hbVars, regVars, now, ticks,
                   temp_found_devices, curIp, curDev, discLog, pollVars,
                   cmdVars, obsVars, nameVars, fixedVars>>

\* lines 98-122: skip the jobs that are not due; start the scan of the first
\* due job, or go to sleep when no job is left
DiscNextJob ==
    /\ DiscRunning /\ discPc = "jobs"
    /\ IF DueFrom(discJob) = {}
       THEN discPc' = "sleep" /\ discJob' = 0 /\ UNCHANGED runLog
       ELSE /\ discPc' = "scan" /\ discJob' = SetMin(DueFrom(discJob))
            /\ runLog' = [runLog EXCEPT ![discJob'] = Append(@, now)]
    /\ UNCHANGED <<mainVars, supVars, hbVars, regVars, now, ticks,
                   next_scan_times, temp_found_devices, curIp, curDev,
                   discLog, pollVars, cmdVars, stopSeen, nameVars, fixedVars>>

\* the scan is over without an error
DiscScanDone(found) ==
    /\ DiscRunning /\ discPc = "scan"
    /\ found \in ScanResults(discJob)
    /\ temp_found_devices' = found
    /\ discPc' = "candidates"
    /\ UNCHANGED <<mainVars, supVars, hbVars, regVars, now, ticks,
                   next_scan_times, discJob, curIp, curDev, discLog, pollVars,
                   cmdVars, obsVars, nameVars, fixedVars>>

DiscoveryCatchesScanOnly(where) == where = "scan"
\* lines 113, 123 and 157: except Exception around the scan of a job and
\* around the authentication and update of a candidate
DiscoveryCatches(where) == where \in {"scan", "auth"}

\* lines 113-114 and 123-124: the scan raised or timed out; the job goes on
\* with temp_found_devices as it was set on line 103
DiscScanFail ==
    /\ DiscRunning /\ discPc = "scan"
    /\ IF DiscoveryCatches("scan")
       THEN /\ temp_found_devices' = {} /\ discPc' = "candidates"
            /\ discLog' = Append(discLog, "scan_failed")
            /\ UNCHANGED <<task, ticks, next_scan_times, discJob, curIp, curDev>>
       ELSE /\ task' = [task EXCEPT !["discovery"] = "raised"]
            /\ DiscReset
    /\ UNCHANGED <<mainVars, supPc, outcome, hbVars, regVars, now, pollVars,
                   cmdVars, obsVars, nameVars, fixedVars>>

\* lines 127-129: the address is the host of a registered handle
DiscCandidateSkip(ip) ==
    /\ DiscRunning /\ discPc = "candidates"
    /\ ip \in temp_found_devices
    /\ AddressKnown(ip, kasa_devices)
    /\ temp_found_devices' = temp_found_devices \ {ip}
    /\ curIp' = "none" /\ curDev' = NoReport
    /\ UNCHANGED <<mainVars, supVars, hbVars, regVars, now, ticks,
                   next_scan_times, discPc, discJob, discLog, pollVars,
                   cmdVars, obsVars, nameVars, fixedVars>>

\* lines 130-133: authentication of the device at ip starts
DiscCandidateAuth(ip) ==
    /\ DiscRunning /\ discPc = "candidates"
    /\ ip \in temp_found_devices
    /\ ~AddressKnown(ip, kasa_devices)
    /\ temp_found_devices' = temp_found_devices \ {ip}
    /\ discPc' = "login" /\ curIp' = ip /\ curDev' = NoReport
    /\ UNCHANGED <<mainVars, supVars, hbVars, regVars, now, ticks,
                   next_scan_times, discJob, discLog, pollVars, cmdVars,
                   obsVars, nameVars, fixedVars>>

\* lines 157-158: the login, or the update after it, failed or timed out
DiscAuthFail ==
    /\ DiscRunning /\ discPc \in {"login", "update"}
    /\ IF DiscoveryCatches("auth")
       THEN /\ discPc' = "candidates" /\ curIp' = "none" /\ curDev' = NoReport
            /\ discLog' = Append(discLog, "auth_failed")
            /\ UNCHANGED <<task, ticks, next_scan_times, discJob,
                           temp_found_devices>>
       ELSE /\ task' = [task EXCEPT !["discovery"] = "raised"]
            /\ DiscReset
    /\ UNCHANGED <<mainVars, supPc, outcome, hbVars, regVars, now, pollVars,
                   cmdVars, obsVars, nameVars, fixedVars>>

\* line 132 is over: the device dev answered; line 134: its update starts
DiscLoginOk(dev) ==
    /\ DiscRunning /\ discPc = "login"
    /\ dev \in network
    /\ curDev' = dev
    /\ discPc' = "update"
    /\ UNCHANGED <<mainVars, supVars, hbVars, regVars, now, ticks,
                   next_scan_times, discJob, temp_found_devices, curIp,
                   discLog, pollVars, cmdVars, obsVars, nameVars, fixedVars>>

\* lines 136-155: the update is over; the device, or each of its children,
\* is registered unless its device_id is registered already
DiscUpdateOk ==
    /\ DiscRunning /\ discPc = "update"
    /\ LET r == RegisterReport(Registry, curDev, curIp)
       IN  /\ kasa_devices' = r.kd /\ key_order' = r.ko
           /\ device_map' = r.dm /\ reverse_device_map' = r.rdm
    /\ discPc' = "candidates"
    /\ discLog' = Append(discLog, "processed")
    /\ UNCHANGED <<mainVars, supVars, hbVars, now, ticks, next_scan_times,
                   discJob, temp_found_devices, curIp, curDev, pollVars,
                   cmdVars, obsVars, nameVars, fixedVars>>

\* lines 160-161: all candidates of the job are processed
DiscJobEnd ==
    /\ DiscRunning /\ discPc = "candidates" /\ temp_found_devices = {}
    /\ next_scan_times' =
          [next_scan_times EXCEPT ![discJob] =
              IF Jobs[discJob].rescan_interval # 0
              THEN now + Jobs[discJob].rescan_interval ELSE Never]
    /\ discJob' = discJob + 1
    /\ discPc' = "jobs"
    /\ curIp' = "none" /\ curDev' = NoReport
    /\ UNCHANGED <<mainVars, supVars, hbVars, regVars, now, ticks,
                   temp_found_devices, discLog, pollVars, cmdVars, obsVars,
                   nameVars, fixedVars>>

\* line 163 and line 97: the sleep is over and the next pass starts
DiscSleepDone ==
    /\ DiscRunning /\ discPc = "sleep"
    /\ ticks < MaxTicks
    /\ ticks' = ticks + 1
    /\ now' = now + DiscoverySleep
    /\ discPc' = "jobs" /\ discJob' = 1
    /\ discLog' = <<>>
    /\ UNCHANGED <<mainVars, supVars, hbVars, regVars, next_scan_times,
                   temp_found_devices, curIp, curDev, pollVars, cmdVars,
                   obsVars, nameVars, fixedVars>>

Discovery ==
    \/ DiscStart \/ DiscNextJob
    \/ \E found \in SUBSET IPs : DiscScanDone(found)
    \/ DiscScanFail
    \/ \E ip \in IPs : DiscCandidateSkip(ip)
    \/ \E ip \in IPs : DiscCandidateAuth(ip)
    \/ DiscAuthFail
    \/ \E dev \in Reports : DiscLoginOk(dev)
    \/ DiscUpdateOk
    \/ DiscJobEnd \/ DiscSleepDone

\* a session whose four tasks have just been created
InitSession ==
    /\ stop_event = FALSE /\ backoff = BackoffInit /\ mainPc = "run_once"
    /\ sessions = 1 /\ sleepLog = <<>> /\ cancelReq = "none"
    /\ supPc = "wait" /\ outcome = "none" /\ task = [t \in Tasks |-> "running"]
    /\ hbPc = "start" /\ status = "none" /\ hbLast = "none"
    /\ RegEmpty /\ now = 0 /\ NameIdle
    /\ ticks = 0 /\ next_scan_times = <<>> /\ discPc = "start" /\ discJob = 0
    /\ temp_found_devices = {} /\ curIp = "none" /\ curDev = NoReport
    /\ discLog = <<>>
    /\ pollPc = "start" /\ pollSnap = <<>> /\ pollDev = <<>>
    /\ hubs_aggiornati = {} /\ hubCalls = EmptyMap /\ hubFails = EmptyMap
    /\ hubOk = {} /\ devCalls = {} /\ published = {}
    /\ cycleSnap = <<>> /\ visited = {}
    /\ msgPc = "subscribe" /\ inbox = <<>> /\ arrived = <<>> /\ taken = <<>>
    /\ curMsg = NoMsg /\ cmdDev = NoHandle /\ pairs = <<>> /\ cmdLog = <<>>
    /\ ObsIdle

\* discovery alone, within one session
InitDisc == InitSession /\ sessionCap = 1 /\ network = Reports
SpecDisc == InitDisc /\ [][Discovery]_vars

\* the supervision together with discovery: a process that may start
\* LifeSessions sessions on a network with one standalone device
LifeReports ==
    {d \in Reports : ~d.is_hub /\ d.device_id = IdA /\ d.alias = <<>>}
InitLife == InitMain /\ sessionCap = LifeSessions /\ network = LifeReports
NextLife == Next \/ Discovery
SpecLife == InitLife /\ [][NextLife]_vars

\* discovery within one session that run_once can tear down: an activity
\* raises, asyncio.wait returns and the pending tasks are cancelled at their
\* awaits
NextTeardown ==
    \/ Discovery
    \/ \E t \in Tasks : TaskRaise(t)
    \/ WaitReturn
    \/ \E t \in Tasks : TaskCancelled(t)
SpecTeardown == InitDisc /\ [][NextTeardown]_vars

(* --------------------------- poll_kasa_devices ------------------------- *)
PollRunning == task["polling"] = "running"

Count(m, k) == IF k \in DOMAIN m THEN m[k] ELSE 0

\* getattr(dev, "parent", None) of the handle registered for device_id
ParentOf(device_id) == kasa_devices[device_id].parent

NeedsHubRefreshAlways(hub, done) == TRUE
\* line 183: hub_key not in hubs_aggiornati
NeedsHubRefresh(hub, done) == hub \notin done

MarkHubAlways(done, hub, ok) == done \cup {hub}
\* lines 184-185: the parent is marked only when its update did not raise
MarkHub(done, hub, ok) == IF ok THEN done \cup {hub} ELSE done

RestAfterFailureNone(snap) == <<>>
\* lines 198-199: except Exception inside the for loop; the loop goes on
\* with the identities of the snapshot not yet visited
RestAfterFailure(snap) == snap

\* lines 173-187 for the rest of the snapshot: skip the identities no longer
\* registered, then start the update of the parent of the next device, or
\* the device's own update; with nothing left, line 202: sleep
RECURSIVE SkipUnregistered(_)
SkipUnregistered(snap) ==
    IF snap # <<>> /\ Head(snap) \notin DOMAIN kasa_devices
    THEN SkipUnregistered(Tail(snap)) ELSE snap

PollVisit(snapshot, done, calls, devs, seen) ==
    LET snap == SkipUnregistered(snapshot)
    IN  IF snap = <<>>
        THEN /\ pollPc' = "sleep" /\ pollSnap' = <<>> /\ pollDev' = <<>>
             /\ hubCalls' = calls /\ devCalls' = devs
             /\ visited' = seen
        ELSE LET d == Head(snap)
                 hub == ParentOf(d)
             IN  /\ pollSnap' = Tail(snap) /\ pollDev' = d
                 /\ visited' = seen \cup {d}
                 /\ IF hub # "none" /\ NeedsHubRefresh(hub, done)
                    THEN /\ pollPc' = "hub_update"
                         /\ hubCalls' = Put(calls, hub, Count(calls, hub) + 1)
                         /\ devCalls' = devs
                    ELSE /\ pollPc' = "dev_update"
                         /\ hubCalls' = calls
                         /\ devCalls' = devs \cup {d}

\* lines 168-173: a cycle starts with an empty set of refreshed parents and
\* a copy of the registered identities
PollCycleStart ==
    /\ PollRunning /\ pollPc \in {"start", "sleep"}
    /\ hubs_aggiornati' = {}
    /\ hubFails' = EmptyMap /\ hubOk' = {} /\ published' = {}
    /\ cycleSnap' = key_order
    /\ PollVisit(key_order, {}, EmptyMap, {}, {})
    /\ UNCHANGED <<mainVars, supVars, hbVars, regVars, now, discVars,
                   cmdVars, obsVars, nameVars, fixedVars>>

\* line 184 is over: hub.update() succeeded (ok) or raised or timed out
PollHubUpdateDone(ok) ==
    /\ PollRunning /\ pollPc = "hub_update"
    /\ LET hub == ParentOf(pollDev)
       IN  /\ hubs_aggiornati' = MarkHub(hubs_aggiornati, hub, ok)
           /\ hubOk' = IF ok THEN hubOk \cup {hub} ELSE hubOk
           /\ hubFails' = IF ok THEN hubFails
                          ELSE Put(hubFails, hub, Count(hubFails, hub) + 1)
           /\ IF ok
              THEN /\ pollPc' = "dev_update"
                   /\ devCalls' = devCalls \cup {pollDev}
                   /\ UNCHANGED <<pollSnap, pollDev, hubCalls, visited>>
              ELSE PollVisit(RestAfterFailure(pollSnap), hubs_aggiornati',
                             hubCalls, devCalls, visited)
    /\ UNCHANGED <<mainVars, supVars, hbVars, regVars, now, discVars,
                   published, cycleSnap, cmdVars, obsVars, nameVars,
                   fixedVars>>

\* line 187 is over: dev.update() succeeded, or raised or timed out
PollDevUpdateDone(ok) ==
    /\ PollRunning /\ pollPc = "dev_update"
    /\ IF ok
       THEN /\ pollPc' = "publish"
            /\ UNCHANGED <<pollSnap, pollDev, hubCalls, devCalls, visited>>
       ELSE PollVisit(RestAfterFailure(pollSnap), hubs_aggiornati, hubCalls,
                      devCalls, visited)
    /\ UNCHANGED <<mainVars, supVars, hbVars, regVars, now, discVars,
                   hubs_aggiornati, hubFails, hubOk, published, cycleSnap,
                   cmdVars, obsVars, nameVars, fixedVars>>

\* line 195 is over: the state was published, or the publish failed
PollPublishDone(ok) ==
    /\ PollRunning /\ pollPc = "publish"
    /\ published' = IF ok THEN published \cup {pollDev} ELSE published
    /\ PollVisit(IF ok THEN pollSnap ELSE RestAfterFailure(pollSnap),
                 hubs_aggiornati, hubCalls, devCalls, visited)
    /\ UNCHANGED <<mainVars, supVars, hbVars, regVars, now, discVars,
                   hubs_aggiornati, hubFails, hubOk, cycleSnap, cmdVars,
                   obsVars, nameVars, fixedVars>>

Poll ==
    \/ PollCycleStart
    \/ \E ok \in BOOLEAN : PollHubUpdateDone(ok)
    \/ \E ok \in BOOLEAN : PollDevUpdateDone(ok)
    \/ \E ok \in BOOLEAN : PollPublishDone(ok)

\* registries to poll: what discovery has registered after at most two
\* authentications at different addresses
IdK3 == <<"k","3">>
PollFinds ==
    { [ip |-> "10.0.0.1",
       dev |-> [is_hub |-> TRUE, device_id |-> <<"h">>, alias |-> <<>>,
                children |-> <<[device_id |-> IdK1, alias |-> <<"k">>],
                               [device_id |-> IdK2, alias |-> <<"k">>],
                               [device_id |-> IdK3, alias |-> <<>>]>>]],
      [ip |-> "10.0.0.1",
       dev |-> [is_hub |-> TRUE, device_id |-> <<"h">>, alias |-> <<>>,
                children |-> <<[device_id |-> IdK1, alias |-> <<"k">>]>>]],
      [ip |-> "10.0.0.2",
       dev |-> [is_hub |-> TRUE, device_id |-> <<"h">>, alias |-> <<>>,
                children |-> <<[device_id |-> IdK1, alias |-> <<"k">>],
                               [device_id |-> IdK2, alias |-> <<"k">>]>>]],
      [ip |-> "10.0.0.2",
       dev |-> [is_hub |-> FALSE, device_id |-> IdA, alias |-> <<"k">>,
                children |-> <<>>]] }

EmptyRegistry == [kd |-> EmptyMap, ko |-> <<>>, dm |-> EmptyMap, rdm |-> EmptyMap]

PollRegistries ==
    {EmptyRegistry}
    \cup {RegisterReport(EmptyRegistry, f.dev, f.ip) : f \in PollFinds}
    \cup UNION { {RegisterReport(RegisterReport(EmptyRegistry, f.dev, f.ip),
                                 g.dev, g.ip) :
                      g \in {h \in PollFinds : h.ip # f.ip}} :
                  f \in PollFinds }

InitPoll ==
    /\ stop_event = FALSE /\ backoff = BackoffInit /\ mainPc = "run_once"
    /\ sessions = 1 /\ sleepLog = <<>> /\ cancelReq = "none"
    /\ supPc = "wait" /\ outcome = "none" /\ task = [t \in Tasks |-> "running"]
    /\ hbPc = "start" /\ status = "none" /\ hbLast = "none"
    /\ now = 0 /\ NameIdle
    /\ ticks = 0 /\ next_scan_times = <<>> /\ discPc = "start" /\ discJob = 0
    /\ temp_found_devices = {} /\ curIp = "none" /\ curDev = NoReport
    /\ discLog = <<>>
    /\ pollPc = "start" /\ pollSnap = <<>> /\ pollDev = <<>>
    /\ hubs_aggiornati = {} /\ hubCalls = EmptyMap /\ hubFails = EmptyMap
    /\ hubOk = {} /\ devCalls = {} /\ published = {}
    /\ cycleSnap = <<>> /\ visited = {}
    /\ msgPc = "subscribe" /\ inbox = <<>> /\ arrived = <<>> /\ taken = <<>>
    /\ curMsg = NoMsg /\ cmdDev = NoHandle /\ pairs = <<>> /\ cmdLog = <<>>
    /\ ObsIdle
    /\ sessionCap = 1 /\ network = {}
    /\ \E r \in PollRegistries :
          /\ kasa_devices = r.kd /\ key_order = r.ko
          /\ device_map = r.dm /\ reverse_device_map = r.rdm

\* the poll loop alone, within one session
SpecPoll == InitPoll /\ [][Poll]_vars

\* the poll loop together with discovery, within one session, on a network
\* with a hub with two children and a standalone device
PollDiscReports ==
    {d \in Reports :
        /\ d.alias = <<>>
        /\ \/ ~d.is_hub /\ d.device_id = IdA
           \/ /\ d.is_hub /\ Len(d.children) = 2
              /\ \A i \in 1..2 : d.children[i].alias = <<>>}
InitPollDisc == InitSession /\ sessionCap = 1 /\ network = PollDiscReports
SpecPollDisc == InitPollDisc /\ [][Poll \/ Discovery]_vars

(* --------------------------- handle_mqtt_messages ---------------------- *)
CmdRunning == task["mqtt_messages"] = "running"

\* config['mqtt']['base_topic']
BaseTopic == <<"k","a","s","a">>

\* str.split('/')
RECURSIVE SplitFrom(_, _)
SplitFrom(s, part) ==
    IF s = <<>> THEN <<part>>
    ELSE IF Head(s) = "/" THEN <<part>> \o SplitFrom(Tail(s), <<>>)
         ELSE SplitFrom(Tail(s), Append(part, Head(s)))
Split(s) == SplitFrom(s, <<>>)

\* f"{base_topic}/{device_name}/set", a topic the subscription of line 207
\* matches, and f"{base_topic}/{device_name}/state" of line 249
CommandTopic(device_name) ==
    BaseTopic \o <<"/">> \o device_name \o <<"/","s","e","t">>
StateTopic(device_name) ==
    BaseTopic \o <<"/">> \o device_name \o <<"/","s","t","a","t","e">>

\* parts[1] of line 221
DeviceName(topic) == Split(topic)[2]

\* dev.features of every handle: the feature names, and whether the feature
\* object has a set_value attribute
DeviceFeatures ==
    ("state" :> TRUE) @@ ("target_temperature" :> TRUE) @@ ("rssi" :> FALSE)

\* line 237
Settable(feature_name) ==
    feature_name \in DOMAIN DeviceFeatures /\ DeviceFeatures[feature_name]

\* a payload is text that is not JSON (kind "garbage"), a JSON array (kind
\* "array") or a JSON object with its (name, value) members in order
Pair(f, v) == [feature |-> f, value |-> v]
Object(items) == [kind |-> "object", items |-> items]
Garbage == [kind |-> "garbage", items |-> <<>>]
Array == [kind |-> "array", items |-> <<>>]

\* line 234: json.loads raises JSONDecodeError on text that is not JSON
Decodes(payload) == payload.kind # "garbage"
\* line 236: commands.items() exists on a dict only
IsMapping(payload) == payload.kind = "object"

\* the registry the router works on: a child of the hub at 10.0.0.1 and a
\* standalone device at 10.0.0.2
CmdRegistry ==
    RegisterReport(
        RegisterReport(EmptyRegistry,
                       [is_hub |-> TRUE, device_id |-> <<"h">>, alias |-> <<>>,
                        children |-> <<[device_id |-> IdK1, alias |-> <<"k">>]>>],
                       "10.0.0.1"),
        [is_hub |-> FALSE, device_id |-> IdA, alias |-> <<"k">>,
         children |-> <<>>],
        "10.0.0.2")
ChildName == unique_name(<<"k">>, IdK1)
StandaloneName == unique_name(<<"k">>, IdA)

\* messages the broker can deliver
MsgPool ==
    { [topic |-> CommandTopic(ChildName),
       payload |-> Object(<<Pair("state", 1)>>)],
      [topic |-> CommandTopic(ChildName),
       payload |-> Object(<<Pair("state", 1), Pair("target_temperature", 0)>>)],
      [topic |-> CommandTopic(ChildName),
       payload |-> Object(<<Pair("bogus", 1), Pair("state", 0)>>)],
      [topic |-> CommandTopic(StandaloneName),
       payload |-> Object(<<Pair("state", 1)>>)],
      [topic |-> CommandTopic(StandaloneName),
       payload |-> Object(<<Pair("state", 0), Pair("rssi", 1),
                            Pair("target_temperature", 1)>>)],
      [topic |-> CommandTopic(ChildName), payload |-> Garbage],
      [topic |-> CommandTopic(StandaloneName), payload |-> Array],
      [topic |-> CommandTopic(<<"n","o","n","e">>),
       payload |-> Object(<<Pair("state", 1)>>)],
      [topic |-> BaseTopic \o <<"/","s","e","t">>,
       payload |-> Object(<<Pair("state", 1)>>)] }

\* one completed call of the router: dev.features[f].set_value(v),
\* dev.parent.update() or client.publish(topic, ..., retain=True)
SetCall(p, ok) ==
    [op |-> "set", ok |-> ok, feature |-> p.feature, value |-> p.value,
     hub |-> "none", topic |-> <<>>, retain |-> FALSE]
HubUpdateCall(hub, ok) ==
    [op |-> "hub_update", ok |-> ok, feature |-> "none", value |-> 0,
     hub |-> hub, topic |-> <<>>, retain |-> FALSE]
PublishCall(topic, ok) ==
    [op |-> "publish", ok |-> ok, feature |-> "none", value |-> 0,
     hub |-> "none", topic |-> topic, retain |-> TRUE]

\* lines 252-253: a pair whose feature is unknown or not settable is logged
RECURSIVE SkipUnsettable(_)
SkipUnsettable(ps) ==
    IF ps # <<>> /\ ~Settable(Head(ps).feature)
    THEN SkipUnsettable(Tail(ps)) ELSE ps

\* lines 236-238 for the pairs ps still to process: the set of the first
\* settable one starts; with none left the router waits for the next message
MsgContinue(ps) ==
    LET rest == SkipUnsettable(ps)
    IN  IF rest = <<>> THEN msgPc' = "wait" /\ pairs' = <<>>
        ELSE msgPc' = "set" /\ pairs' = rest

RouterCatchesJsonOnly(kind) == kind = "json"
\* lines 255 and 257: except json.JSONDecodeError, except Exception
RouterCatches(kind) == kind \in {"json", "other"}

\* an exception of the given kind is raised inside the try block of line 214
MsgAbort(kind) ==
    IF RouterCatches(kind)
    THEN msgPc' = "wait" /\ pairs' = <<>> /\ UNCHANGED task
    ELSE /\ msgPc' = "dead" /\ pairs' = <<>>
         /\ task' = [task EXCEPT !["mqtt_messages"] = "raised"]

NeedsConfirmAlways(dev) == TRUE
\* line 242: hasattr(dev, 'parent') and dev.parent
NeedsConfirm(dev) == dev.parent # "none"

\* line 208 is over: the subscription is made
MsgSubscribed ==
    /\ CmdRunning /\ msgPc = "subscribe"
    /\ msgPc' = "wait"
    /\ UNCHANGED <<mainVars, supVars, hbVars, regVars, now, discVars, pollVars,
                   inbox, arrived, taken, curMsg, cmdDev, pairs, cmdLog,
                   obsVars, nameVars, fixedVars>>

\* the client receives message m for the subscription
MsgArrive(m) ==
    /\ CmdRunning /\ msgPc \notin {"dead", "subscribe"}
    /\ Len(arrived) < MaxMsgs
    /\ inbox' = Append(inbox, m) /\ arrived' = Append(arrived, m)
    /\ UNCHANGED <<mainVars, supVars, hbVars, regVars, now, discVars, pollVars,
                   msgPc, taken, curMsg, cmdDev, pairs, cmdLog, obsVars,
                   nameVars, fixedVars>>

\* lines 211-238: the next message is consumed, its topic is resolved and its
\* payload decoded, up to the first await of its handling
MsgTake ==
    /\ CmdRunning /\ msgPc = "wait" /\ inbox # <<>>
    /\ LET m == Head(inbox)
           parts == Split(m.topic)
       IN  /\ inbox' = Tail(inbox) /\ taken' = Append(taken, m)
           /\ curMsg' = m /\ cmdLog' = <<>>
           /\ IF \/ Len(parts) < 3
                 \/ parts[2] \notin DOMAIN reverse_device_map
                 \/ reverse_device_map[parts[2]] \notin DOMAIN kasa_devices
              THEN /\ msgPc' = "wait" /\ pairs' = <<>> /\ cmdDev' = NoHandle
                   /\ UNCHANGED task
              ELSE /\ cmdDev' = kasa_devices[reverse_device_map[parts[2]]]
                   /\ IF ~Decodes(m.payload) THEN MsgAbort("json")
                      ELSE IF ~IsMapping(m.payload) THEN MsgAbort("other")
                      ELSE MsgContinue(m.payload.items) /\ UNCHANGED task
    /\ UNCHANGED <<mainVars, supPc, outcome, hbVars, regVars, now, discVars,
                   pollVars, arrived, obsVars, nameVars, fixedVars>>

\* line 238 is over: set_value succeeded (ok), or raised or timed out
MsgSetDone(ok) ==
    /\ CmdRunning /\ msgPc = "set"
    /\ cmdLog' = Append(cmdLog, SetCall(Head(pairs), ok))
    /\ IF ok
       THEN /\ IF NeedsConfirm(cmdDev)
               THEN msgPc' = "confirm_sleep" /\ UNCHANGED pairs
               ELSE MsgContinue(Tail(pairs))
            /\ UNCHANGED task
       ELSE MsgAbort("other")
    /\ UNCHANGED <<mainVars, supPc, outcome, hbVars, regVars, now, discVars,
                   pollVars, inbox, arrived, taken, curMsg, cmdDev, obsVars,
                   nameVars, fixedVars>>

\* line 244: await asyncio.sleep(1) is over
MsgConfirmSleepDone ==
    /\ CmdRunning /\ msgPc = "confirm_sleep"
    /\ msgPc' = "confirm_update"
    /\ UNCHANGED <<mainVars, supVars, hbVars, regVars, now, discVars, pollVars,
                   inbox, arrived, taken, curMsg, cmdDev, pairs, cmdLog,
                   obsVars, nameVars, fixedVars>>

\* line 245 is over: the update of the parent succeeded, or raised or timed
\* out
MsgConfirmUpdateDone(ok) ==
    /\ CmdRunning /\ msgPc = "confirm_update"
    /\ cmdLog' = Append(cmdLog, HubUpdateCall(cmdDev.parent, ok))
    /\ IF ok
       THEN msgPc' = "confirm_publish" /\ UNCHANGED <<pairs, task>>
       ELSE MsgAbort("other")
    /\ UNCHANGED <<mainVars, supPc, outcome, hbVars, regVars, now, discVars,
                   pollVars, inbox, arrived, taken, curMsg, cmdDev, obsVars,
                   nameVars, fixedVars>>

\* lines 247-251 are over: the retained publish succeeded, or raised or timed
\* out
MsgConfirmPublishDone(ok) ==
    /\ CmdRunning /\ msgPc = "confirm_publish"
    /\ cmdLog' = Append(cmdLog,
                        PublishCall(StateTopic(DeviceName(curMsg.topic)), ok))
    /\ IF ok
       THEN MsgContinue(Tail(pairs)) /\ UNCHANGED task
       ELSE MsgAbort("other")
    /\ UNCHANGED <<mainVars, supPc, outcome, hbVars, regVars, now, discVars,
                   pollVars, inbox, arrived, taken, curMsg, cmdDev, obsVars,
                   nameVars, fixedVars>>

Router ==
    \/ MsgSubscribed \/ MsgTake
    \/ \E ok \in BOOLEAN : MsgSetDone(ok)
    \/ MsgConfirmSleepDone
    \/ \E ok \in BOOLEAN : MsgConfirmUpdateDone(ok)
    \/ \E ok \in BOOLEAN : MsgConfirmPublishDone(ok)

InitCmd ==
    /\ stop_event = FALSE /\ backoff = BackoffInit /\ mainPc = "run_once"
    /\ sessions = 1 /\ sleepLog = <<>> /\ cancelReq = "none"
    /\ supPc = "wait" /\ outcome = "none" /\ task = [t \in Tasks |-> "running"]
    /\ hbPc = "start" /\ status = "none" /\ hbLast = "none"
    /\ now = 0 /\ NameIdle /\ ObsIdle
    /\ ticks = 0 /\ next_scan_times = <<>> /\ discPc = "start" /\ discJob = 0
    /\ temp_found_devices = {} /\ curIp = "none" /\ curDev = NoReport
    /\ discLog = <<>>
    /\ pollPc = "start" /\ pollSnap = <<>> /\ pollDev = <<>>
    /\ hubs_aggiornati = {} /\ hubCalls = EmptyMap /\ hubFails = EmptyMap
    /\ hubOk = {} /\ devCalls = {} /\ published = {}
    /\ cycleSnap = <<>> /\ visited = {}
    /\ msgPc = "subscribe" /\ inbox = <<>> /\ arrived = <<>> /\ taken = <<>>
    /\ curMsg = NoMsg /\ cmdDev = NoHandle /\ pairs = <<>> /\ cmdLog = <<>>
    /\ sessionCap = 1 /\ network = {}
    /\ kasa_devices = CmdRegistry.kd /\ key_order = CmdRegistry.ko
    /\ device_map = CmdRegistry.dm /\ reverse_device_map = CmdRegistry.rdm

\* the command router alone, within one session: messages arrive, the
\* subscription or the message stream can fail
NextCmd ==
    \/ Router
    \/ \E m \in MsgPool : MsgArrive(m)
    \/ \E t \in {"mqtt_messages"} : TaskRaise(t)
SpecCmd == InitCmd /\ [][NextCmd]_vars

(* ----------------------- the topic naming function --------------------- *)
\* aliases and device ids the naming function is applied to
NameAliases == AliasPool \cup { <<"A"," ","\t","b">>, <<"k">> }
NameIds == {IdA, IdB, IdK1, IdK2, <<"1">>}
NameInputs == [alias : NameAliases, device_id : NameIds]

InitName ==
    /\ stop_event = FALSE /\ backoff = BackoffInit /\ mainPc = "loop"
    /\ sessions = 0 /\ sleepLog = <<>> /\ cancelReq = "none"
    /\ supPc = "idle" /\ outcome = "none" /\ task = [t \in Tasks |-> "idle"]
    /\ hbPc = "dead" /\ status = "none" /\ hbLast = "none"
    /\ RegEmpty /\ now = 0 /\ DiscIdle /\ PollIdle /\ CmdIdle /\ ObsIdle
    /\ sessionCap = 0 /\ network = {}
    /\ in1 \in NameInputs /\ in2 \in NameInputs
    /\ out1 = <<>> /\ out2 = <<>>

\* lines 141-142 / 150-151 applied to both inputs
ComputeNames ==
    /\ out1 = <<>>
    /\ out1' = unique_name(in1.alias, in1.device_id)
    /\ out2' = unique_name(in2.alias, in2.device_id)
    /\ UNCHANGED <<mainVars, supVars, hbVars, regVars, now, discVars,
                   pollVars, cmdVars, obsVars, in1, in2,
                   fixedVars>>

SpecName == InitName /\ [][ComputeNames]_vars

(* ======================= claims on the supervision ===================== *)
SessionActive == mainPc = "run_once"
Unfinished(t) == task[t] \in {"running", "cancel_req"}

\* C1: once the stop signal is set during a session (running or being
\* started), run_once eventually returns and main eventually terminates,
\* also when no activity ever raises
C1_StopTerminatesMain ==
    (stop_event /\ SessionActive) ~> (supPc = "closed" /\ mainPc = "done")

\* C2: when an activity has terminated, by returning or by raising, while
\* run_once waits, the wait is over (run_once can go on to cancel the
\* others); run_once then waits for all of them, and it raises exactly when
\* a task raised
C2_FirstTerminationEndsSession ==
    /\ (supPc = "wait" /\ \E t \in Tasks : task[t] \in {"returned", "raised"})
          => ENABLED Supervisor
    /\ supPc = "gather_pending" => \A t \in Tasks : task[t] # "running"
    /\ (supPc = "closed" /\ cancelReq = "none" /\ task["heartbeat"] # "idle")
          => /\ \A t \in Tasks : task[t] \in Finished
             /\ outcome = "error" <=> FirstException

Pow2(n) == 2 ^ n

\* C3: the k-th sleep of main lasts min(3 * 2^(k-1), 60) seconds; backoff
\* stays between 3 and 60 and never decreases
C3_BackoffSchedule ==
    /\ [](/\ \A k \in 1..Len(sleepLog) :
                sleepLog[k] = Min(BackoffInit * Pow2(k - 1), BackoffCeil)
          /\ backoff >= BackoffInit /\ backoff <= BackoffCeil)
    /\ [][backoff' >= backoff]_vars

\* a sixth and a seventh sleep have started, both at the ceiling, with the
\* stop signal not set
C3_Witness ==
    /\ Len(sleepLog) >= 7 /\ sleepLog[6] = BackoffCeil
    /\ sleepLog[7] = BackoffCeil /\ ~stop_event

\* C4: when run_once has returned or raised, and until the next session has
\* created its tasks, no activity task is still running
C4_NoActivityAfterRunOnce ==
    supPc \in {"idle", "connect", "closed"} => \A t \in Tasks : ~Unfinished(t)

\* run_once was cancelled while waiting, its finally block had running tasks
\* to cancel, and it has raised after all of them were cancelled
C4_Witness ==
    /\ supPc = "closed" /\ outcome = "cancelled"
    /\ \A t \in Tasks : task[t] = "cancelled"

\* C13: when the stop signal was set while the session ran and the heartbeat
\* task of that session, which has published, is finished, the last message
\* it called publish for is "offline" (also when main itself is not cancelled
\* from outside)
C13_LastHeartbeatMessageOffline ==
    (/\ stopSeen /\ task["heartbeat"] \in Finished
     /\ hbLast # "none" /\ cancelReq = "none")
       => hbLast = "offline"

\* C19: main leaves its loop only with the stop signal set or by its own
\* cancellation; with the stop signal not set it starts a sleep of the
\* current backoff when run_once has returned or raised, goes back to the
\* head of the loop when the sleep is over, and calls run_once again there
C19_SupervisorKeepsRetrying ==
    [][/\ (mainPc # "done" /\ mainPc' = "done")
             => stop_event \/ cancelReq' = "delivered"
       /\ (supPc # "closed" /\ supPc' = "closed" /\ ~stop_event
              /\ outcome' # "cancelled")
             => /\ mainPc' \in {"sleep", "sleep_err"}
                /\ sleepLog' = Append(sleepLog, backoff)
       /\ (mainPc \in {"sleep", "sleep_err"} /\ mainPc' # mainPc)
             => mainPc' = "loop" \/ cancelReq' = "delivered"
       /\ (mainPc = "loop" /\ mainPc' # "loop" /\ ~stop_event)
             => /\ mainPc' = "run_once" /\ supPc' = "connect"
                /\ sessions' = sessions + 1]_vars

\* a third attempt has started, with the stop signal not set, after an
\* attempt whose discovery task raised and two sleeps
C19_Witness ==
    /\ sessions = 3 /\ supPc = "connect" /\ ~stop_event
    /\ sleepLog = <<BackoffInit, 2 * BackoffInit>>
    /\ task["discovery"] = "raised"

\* C20: the retained status on the broker is "online" only while a session
\* is running or being torn down (so a session that published "online" has
\* published "offline" when run_once is over), also when main itself is not
\* cancelled from outside
C20_OnlineOnlyWhileSessionRuns ==
    (status = "online" /\ cancelReq = "none")
       => supPc \in {"wait", "gather_pending", "finally_gather", "disconnect"}

(* ================ claims on the registry and on discovery ============== *)
\* C5: the handle map and the reverse map have the same number of entries
\* and reverse_device_map[device_map[d]] = d for every registered d (so no
\* registration has overwritten an entry of the reverse map)
C5_RegistryMapsInverse ==
    /\ Cardinality(DOMAIN kasa_devices) = Cardinality(DOMAIN reverse_device_map)
    /\ \A d \in DOMAIN kasa_devices :
          /\ d \in DOMAIN device_map
          /\ device_map[d] \in DOMAIN reverse_device_map
          /\ reverse_device_map[device_map[d]] = d

\* C6: two different device ids never get the same topic name, whatever
\* the aliases
C6_DistinctIdsDistinctNames ==
    (out1 # <<>> /\ in1.device_id # in2.device_id) => out1 # out2

\* C7: a registered identity stays registered, with the same topic name, in
\* every later state of the process
C7_RegistrationPermanent ==
    [][\A d \in DOMAIN device_map :
          /\ d \in DOMAIN kasa_devices' /\ d \in DOMAIN device_map'
          /\ device_map'[d] = device_map[d]]_vars

\* device ids a report would register if none of them were known
ReportIds(dev) ==
    IF dev.is_hub THEN {dev.children[i].device_id : i \in 1..Len(dev.children)}
    ELSE {dev.device_id}

NoDuplicates(seq) == \A i, j \in 1..Len(seq) : seq[i] = seq[j] => i = j

\* C10: within a session a discovery step keeps every registered identity
\* with its handle and its topic name and never lists an identity twice; a
\* report made only of registered identities leaves the registry as it is;
\* a candidate whose address is the host of a registered handle is dropped
\* without authentication
C10_DiscoveryKeepsEntries ==
    [][DiscRunning /\ DiscRunning' =>
         /\ \A d \in DOMAIN kasa_devices :
               /\ d \in DOMAIN kasa_devices' /\ d \in DOMAIN device_map'
               /\ kasa_devices'[d] = kasa_devices[d]
               /\ device_map'[d] = device_map[d]
         /\ NoDuplicates(key_order')
         /\ Cardinality(DOMAIN kasa_devices') = Len(key_order')
         /\ (discPc = "update" /\ discPc' = "candidates"
                /\ ReportIds(curDev) \subseteq DOMAIN kasa_devices)
               => regVars' = regVars
         /\ \A ip \in temp_found_devices \ temp_found_devices' :
               AddressKnown(ip, kasa_devices)
                  => discPc' # "login" /\ regVars' = regVars]_vars

\* a registered standalone device has answered at another address and its
\* update is over: the stored handle still has the old address
C10_Witness ==
    /\ discPc = "candidates" /\ ~curDev.is_hub
    /\ curDev.device_id \in DOMAIN kasa_devices
    /\ curIp \in IPs
    /\ kasa_devices[curDev.device_id].host # curIp
    /\ device_map[curDev.device_id] # unique_name(curDev.alias, curDev.device_id)

\* C14: over the life of the process a job without rescan_interval is
\* scanned at most once, and two scans of a job with rescan_interval r are
\* at least r seconds apart
C14_JobsKeepTheirSchedule ==
    \A i \in 1..Len(Jobs) :
        IF Jobs[i].rescan_interval = 0
        THEN Len(runLog[i]) <= 1
        ELSE \A k \in 2..Len(runLog[i]) :
                 runLog[i][k] - runLog[i][k - 1] >= Jobs[i].rescan_interval

\* C18: the handle map and the topic-name map have the same keys, and every
\* value of the reverse map is a registered identity, in every state (at
\* every suspension point of discovery, and after its cancellation)
C18_MapsRegisteredTogether ==
    /\ DOMAIN kasa_devices = DOMAIN device_map
    /\ \A n \in DOMAIN reverse_device_map :
          reverse_device_map[n] \in DOMAIN kasa_devices

\* discovery was cancelled at one of its awaits after it had registered two
\* identities
C18_Witness ==
    /\ task["discovery"] = "cancelled"
    /\ Cardinality(DOMAIN kasa_devices) >= 2

\* a step of discovery in which a scan, or the authentication or update of
\* a candidate, has just failed
ScanFailed ==
    Len(discLog') = Len(discLog) + 1 /\ discLog'[Len(discLog')] = "scan_failed"
AuthFailed ==
    Len(discLog') = Len(discLog) + 1 /\ discLog'[Len(discLog')] = "auth_failed"

\* C16: no step of discovery ends the task; a failed scan leaves the job
\* without candidates and a failed candidate leaves the registry as it was,
\* and both leave the task in the same job with the other candidates still
\* to process; the job is rescheduled only when no candidate is left, and
\* when the pass goes to sleep no job is left due
C16_DiscoveryFailuresAbsorbed ==
    /\ [][DiscRunning =>
            /\ DiscRunning' /\ discPc' # "dead"
            /\ ScanFailed
                  => /\ temp_found_devices' = {} /\ regVars' = regVars
                     /\ discJob' = discJob /\ discPc' = "candidates"
            /\ AuthFailed
                  => /\ temp_found_devices' = temp_found_devices
                     /\ regVars' = regVars
                     /\ discJob' = discJob /\ discPc' = "candidates"
            /\ (discPc = "candidates" /\ next_scan_times' # next_scan_times)
                  => temp_found_devices = {}]_vars
    /\ [](DiscRunning /\ discPc = "sleep"
             => \A i \in 1..Len(Jobs) : ~Due(i))

\* in one pass the authentication of a candidate failed, a later candidate
\* was authenticated and registered, and the scan of a job failed
C16_Witness ==
    /\ DiscRunning /\ DOMAIN kasa_devices # {}
    /\ \E i, j \in 1..Len(discLog) :
          i < j /\ discLog[i] = "auth_failed" /\ discLog[j] = "processed"
    /\ \E k \in 1..Len(discLog) : discLog[k] = "scan_failed"

(* ====================== claims on the poll loop ======================== *)
HasParent(d) == d \in DOMAIN kasa_devices /\ ParentOf(d) # "none"

\* C8: in a cycle, the own refresh of a device with a parent is started only
\* after a refresh of that parent succeeded in the same cycle; without a
\* successful parent refresh the device is neither refreshed nor published
C8_ParentRefreshedFirst ==
    /\ \A d \in devCalls : HasParent(d) => ParentOf(d) \in hubOk
    /\ \A d \in published : d \in devCalls
    /\ pollPc \in {"dev_update", "publish"} /\ HasParent(pollDev)
          => ParentOf(pollDev) \in hubOk

\* a child was published in a cycle in which a refresh of its parent had
\* failed first, and a child of that parent was left out
C8_Witness ==
    \E d \in published :
        /\ HasParent(d) /\ Count(hubFails, ParentOf(d)) >= 1
        /\ \E e \in DOMAIN kasa_devices :
              e \notin devCalls /\ ParentOf(e) = ParentOf(d) /\ pollPc = "sleep"

\* C9 as claimed: in a cycle the refresh of a parent is invoked at most
\* once, whatever its outcome
C9_HubRefreshedAtMostOnce ==
    \A h \in DOMAIN hubCalls : hubCalls[h] <= 1

Children(h) == {d \in DOMAIN kasa_devices : ParentOf(d) = h}

\* C9 amended: in a cycle every refresh of a parent but the first follows a
\* failed one and none follows a successful one (at most one per registered
\* child of the parent); the set of refreshed parents holds exactly the
\* parents refreshed successfully in the current cycle
C9_HubRefreshedOncePerSuccess ==
    /\ \A h \in DOMAIN hubCalls :
          /\ hubCalls[h] <= Count(hubFails, h) + 1
          /\ hubCalls[h] <= Cardinality(Children(h))
          /\ h \in hubOk => hubCalls[h] = Count(hubFails, h) + 1
    /\ hubs_aggiornati = hubOk

\* three children share a parent: its first refresh failed, the second one
\* succeeded, and the third child was refreshed without another one
C9_Witness ==
    \E h \in DOMAIN hubCalls :
        /\ hubCalls[h] = 2 /\ Count(hubFails, h) = 1 /\ h \in hubOk
        /\ Cardinality(Children(h) \cap devCalls) = 2
        /\ pollPc = "sleep"

(* ==================== claims on the command router ===================== *)
\* the topic of m has a registered name in its second level
Resolves(m) ==
    /\ Len(Split(m.topic)) >= 3
    /\ DeviceName(m.topic) \in DOMAIN reverse_device_map
    /\ reverse_device_map[DeviceName(m.topic)] \in DOMAIN kasa_devices
ResolvedDev(m) == kasa_devices[reverse_device_map[DeviceName(m.topic)]]

\* the handling of curMsg is over and the router waits for the next message
HandlingOver == CmdRunning /\ msgPc = "wait" /\ curMsg # NoMsg

\* m is a command for a registered name whose payload is one settable pair
OneSettablePair(m) ==
    /\ Resolves(m) /\ IsMapping(m.payload)
    /\ Len(m.payload.items) = 1 /\ Settable(m.payload.items[1].feature)

\* the calls of a complete round trip for such a message, in order
RoundTrip(m) ==
    <<SetCall(m.payload.items[1], TRUE)>>
    \o IF ResolvedDev(m).parent # "none"
       THEN <<HubUpdateCall(ResolvedDev(m).parent, TRUE),
              PublishCall(StateTopic(DeviceName(m.topic)), TRUE)>>
       ELSE <<>>

\* the calls of a log, whatever their outcome
Calls(log) == [i \in 1..Len(log) |-> [log[i] EXCEPT !.ok = TRUE]]

\* C11 as claimed: when a command with one settable pair (f, v) for a
\* registered name has been handled, the router has made exactly the calls
\* set(f, v) and, for a device with a parent, then one refresh of the parent
\* and then one retained publish on the state topic; for a device without
\* parent the set only
C11_RoundTrip ==
    (HandlingOver /\ OneSettablePair(curMsg))
       => Calls(cmdLog) = RoundTrip(curMsg)

\* C11 amended: the calls made for such a command are always the first calls
\* of the round trip, in its order, each one after the first following a
\* call that succeeded; when the handling is over the set has been called,
\* and the round trip is complete unless its last call made failed
C11_RoundTripWhileSucceeding ==
    (CmdRunning /\ curMsg # NoMsg /\ OneSettablePair(curMsg))
       => /\ Len(cmdLog) <= Len(RoundTrip(curMsg))
          /\ Calls(cmdLog) = SubSeq(RoundTrip(curMsg), 1, Len(cmdLog))
          /\ \A i \in 2..Len(cmdLog) : cmdLog[i - 1].ok
          /\ msgPc = "wait"
                => /\ Len(cmdLog) >= 1
                   /\ Len(cmdLog) < Len(RoundTrip(curMsg))
                         => ~cmdLog[Len(cmdLog)].ok

\* a command with one settable pair for the child has been handled: the set,
\* the refresh of the parent and the retained publish were made and
\* succeeded
C11_Witness ==
    /\ HandlingOver /\ OneSettablePair(curMsg)
    /\ ResolvedDev(curMsg).parent # "none"
    /\ Len(cmdLog) = 3 /\ \A i \in 1..3 : cmdLog[i].ok
    /\ cmdLog[3].op = "publish" /\ cmdLog[3].retain

\* a step of the router that belongs to the handling of one message: it
\* consumes the message, or it ends one of the awaits of its handling
HandlingStep ==
    /\ CmdRunning
    /\ \/ Len(taken') = Len(taken) + 1
       \/ msgPc \in {"set", "confirm_sleep", "confirm_update", "confirm_publish"}

\* a call of the handling has just failed or timed out
CallFailed == Len(cmdLog') = Len(cmdLog) + 1 /\ ~cmdLog'[Len(cmdLog')].ok

\* the message just consumed cannot be handled: its topic has fewer than
\* three levels or an unknown name, or its payload is not a JSON object
Unusable(m) == ~Resolves(m) \/ ~IsMapping(m.payload)

\* C12: no step of the handling of a message ends the router; after a
\* message that cannot be handled and after a failed or timed out set,
\* confirmation refresh or publish the router waits for the next message;
\* no call is made for a payload that is not a JSON object; the messages are
\* consumed in the order of their arrival
C12_HandlingErrorsAbsorbed ==
    /\ [][HandlingStep =>
            /\ CmdRunning' /\ msgPc' # "dead"
            /\ CallFailed => msgPc' = "wait"
            /\ (Len(taken') = Len(taken) + 1 /\ Unusable(Head(inbox)))
                  => msgPc' = "wait" /\ cmdLog' = <<>>]_vars
    /\ [](CmdRunning /\ curMsg # NoMsg /\ ~IsMapping(curMsg.payload)
             => cmdLog = <<>>)
    /\ [](CmdRunning => taken \o inbox = arrived)

\* the first message, for a registered name, had a payload that is not a
\* JSON object; the second message has been consumed after it and its set
\* has been made and has failed; the router waits for the next message
C12_Witness ==
    /\ CmdRunning /\ Len(taken) = 2 /\ msgPc = "wait"
    /\ Resolves(taken[1]) /\ ~IsMapping(taken[1].payload)
    /\ cmdLog # <<>> /\ ~cmdLog[Len(cmdLog)].ok

IsSetCall(call) == call.op = "set"
SettablePair(p) == Settable(p.feature)
\* the (feature, value) pairs of the set calls of a log, in order
PairsSet(log) ==
    LET sets == SelectSeq(log, IsSetCall)
    IN  [i \in 1..Len(sets) |-> Pair(sets[i].feature, sets[i].value)]

\* C17: when a command for a registered name whose payload is a JSON object
\* has been handled, set has been called once for every pair of the payload
\* with a settable feature, in the order of the payload, and for no other
\* pair
C17_EverySettablePairSet ==
    (HandlingOver /\ Resolves(curMsg) /\ IsMapping(curMsg.payload))
       => PairsSet(cmdLog) = SelectSeq(curMsg.payload.items, SettablePair)

Before(seq, a, b) ==
    \E i, j \in 1..Len(seq) : i < j /\ seq[i] = a /\ seq[j] = b

\* C15: in a cycle every identity of the snapshot taken at its start has had
\* its turn or is still to be visited, whatever failed before, and all have
\* had it when the cycle is over; only identities of the snapshot are
\* polled; the snapshot of a cycle is the list of the identities registered
\* when it starts; no step ends the poll loop
C15_SnapshotFullyPolled ==
    /\ [](PollRunning =>
            /\ visited \cup Range(pollSnap) = Range(cycleSnap)
            /\ pollPc = "sleep" => visited = Range(cycleSnap)
            /\ devCalls \subseteq visited /\ published \subseteq visited
            /\ pollPc \in {"hub_update", "dev_update", "publish"}
                  => pollDev \in visited)
    /\ [][PollRunning =>
            /\ PollRunning' /\ pollPc' # "dead"
            /\ (pollPc \in {"start", "sleep"} /\ pollPc' # pollPc)
                  => cycleSnap' = key_order
            /\ (pollPc \notin {"start", "sleep"}) => cycleSnap' = cycleSnap]_vars

\* a cycle is over in which the refresh or the publish of one device failed,
\* a device after it in the snapshot was published, and an identity
\* registered during the cycle was not polled
C15_Witness ==
    /\ PollRunning /\ pollPc = "sleep"
    /\ \E d \in devCalls \ published :
          \E e \in published : Before(cycleSnap, d, e)
    /\ \E n \in DOMAIN kasa_devices : n \notin Range(cycleSnap)

====
